---- MODULE Spec2Model ----
(***************************************************************************)
(* hex2boot: conversion of a firmware image into the boot record stream of *)
(* the EFM8 bootloader.  The module models src/hex2boot.py: the CRC-16     *)
(* engine, the record encoders, the device maps and the region planner,    *)
(* the image translator mem2boot, the range-erase translator erase2boot    *)
(* and the session orchestrator hex2boot, which appends records to the     *)
(* byte sink brec.                                                         *)
(***************************************************************************)
EXTENDS Integers, Sequences, FiniteSets, TLC

(***************************************************************************)
(* Integer helpers: Python's max, min and the bit operations of crc16.     *)
(***************************************************************************)
Max(a, b) == IF a >= b THEN a ELSE b
Min(a, b) == IF a <= b THEN a ELSE b

\* a ^ b on non-negative integers
Xor(a, b) ==
    LET bits[m \in Nat, n \in Nat] ==
            IF m = 0 THEN n
            ELSE IF n = 0 THEN m
            ELSE (((m % 2) + (n % 2)) % 2) + 2 * bits[m \div 2, n \div 2]
    IN  bits[a, b]

(***************************************************************************)
(* Checksum engine                                                         *)
(***************************************************************************)
\* _CRC16_XMODEM_TABLE; the Python list is indexed from 0, the tuple from 1
CRC16_XMODEM_TABLE == <<
        0,  4129,  8258, 12387, 16516, 20645, 24774, 28903,
    33032, 37161, 41290, 45419, 49548, 53677, 57806, 61935,
     4657,   528, 12915,  8786, 21173, 17044, 29431, 25302,
    37689, 33560, 45947, 41818, 54205, 50076, 62463, 58334,
     9314, 13379,  1056,  5121, 25830, 29895, 17572, 21637,
    42346, 46411, 34088, 38153, 58862, 62927, 50604, 54669,
    13907,  9842,  5649,  1584, 30423, 26358, 22165, 18100,
    46939, 42874, 38681, 34616, 63455, 59390, 55197, 51132,
    18628, 22757, 26758, 30887,  2112,  6241, 10242, 14371,
    51660, 55789, 59790, 63919, 35144, 39273, 43274, 47403,
    23285, 19156, 31415, 27286,  6769,  2640, 14899, 10770,
    56317, 52188, 64447, 60318, 39801, 35672, 47931, 43802,
    27814, 31879, 19684, 23749, 11298, 15363,  3168,  7233,
    60846, 64911, 52716, 56781, 44330, 48395, 36200, 40265,
    32407, 28342, 24277, 20212, 15891, 11826,  7761,  3696,
    65439, 61374, 57309, 53244, 48923, 44858, 40793, 36728,
    37256, 33193, 45514, 41451, 53516, 49453, 61774, 57711,
     4224,   161, 12482,  8419, 20484, 16421, 28742, 24679,
    33721, 37784, 41979, 46042, 49981, 54044, 58239, 62302,
      689,  4752,  8947, 13010, 16949, 21012, 25207, 29270,
    46570, 42443, 38312, 34185, 62830, 58703, 54572, 50445,
    13538,  9411,  5280,  1153, 29798, 25671, 21540, 17413,
    42971, 47098, 34713, 38840, 59231, 63358, 50973, 55100,
     9939, 14066,  1681,  5808, 26199, 30326, 17941, 22068,
    55628, 51565, 63758, 59695, 39368, 35305, 47498, 43435,
    22596, 18533, 30726, 26663,  6336,  2273, 14466, 10403,
    52093, 56156, 60223, 64286, 35833, 39896, 43963, 48026,
    19061, 23124, 27191, 31254,  2801,  6864, 10931, 14994,
    64814, 60687, 56684, 52557, 48554, 44427, 40424, 36297,
    31782, 27655, 23652, 19525, 15522, 11395,  7392,  3265,
    61215, 65342, 53085, 57212, 44955, 49082, 36825, 40952,
    28183, 32310, 20053, 24180, 11923, 16050,  3793,  7920
    >>

\* a slip of the table index: the low byte of crc for the high byte
crc16_byte_low_index(crc, byte) ==
    Xor((crc % 256) * 256, CRC16_XMODEM_TABLE[Xor(crc % 256, byte) + 1])

\* one iteration of the loop of crc16:
\*   crc = ((crc<<8) & 0xff00) ^ table[((crc>>8) & 0xff) ^ byte]
crc16_byte(crc, byte) ==
    Xor((crc % 256) * 256,
        CRC16_XMODEM_TABLE[Xor((crc \div 256) % 256, byte) + 1])

\* the loop "for byte in bytearray(data)" of crc16 over data[lo..hi], the
\* bytes taken in ascending order; the index range is halved only to keep
\* the depth of evaluation logarithmic in the length
crc16_range(data, lo, hi, crc) ==
    LET fold[l \in Nat, h \in Nat, c \in Nat] ==
            IF l > h THEN c
            ELSE IF l = h THEN crc16_byte(c, data[l])
            ELSE fold[((l + h) \div 2) + 1, h, fold[l, (l + h) \div 2, c]]
    IN  fold[lo, hi, crc]

\* a slip of crc16: every call starts again from 0 whatever crc it is given
crc16_per_call_reset(data, crc) == crc16_range(data, 1, Len(data), 0) % 65536

\* crc16(data, crc): the loop over the bytes, then "& 0xffff"
crc16(data, crc) == crc16_range(data, 1, Len(data), crc) % 65536

(***************************************************************************)
(* Record encoder.  struct.pack raises struct.error for a 'B' field        *)
(* outside 0..255 and for an 'H' field outside 0..65535; the encoders      *)
(* return StructError in that case and the packed bytes otherwise.         *)
(***************************************************************************)
FSB == 36

StructError == <<-1>>

U8(v)  == v \in 0..255
U16(v) == v \in 0..65535

\* the two bytes of a '>H' field
BE16(v) == <<v \div 256, v % 256>>

pack_cBBH(len, type, h) ==
    IF U8(len) /\ U8(type) /\ U16(h)
    THEN <<FSB, len, type>> \o BE16(h)
    ELSE StructError

bin_ident(blid) == pack_cBBH(3, 48, blid)

bin_setup(bank, keys) ==
    IF U16(keys) /\ U8(bank)
    THEN <<FSB, 4, 49>> \o BE16(keys) \o <<bank>>
    ELSE StructError

SETUP_KEYS == 42481

bin_erase(addr, data) ==
    LET head == pack_cBBH(3 + Len(data), 50, addr)
    IN  IF head = StructError THEN StructError ELSE head \o data

\* a slip of the header: the length field counts the header alone
bin_write_header_length(addr, data) ==
    LET head == pack_cBBH(3, 51, addr)
    IN  IF head = StructError THEN StructError ELSE head \o data

bin_write(addr, data) ==
    LET head == pack_cBBH(3 + Len(data), 51, addr)
    IN  IF head = StructError THEN StructError ELSE head \o data

bin_verify(org, end, crc) ==
    IF U16(org) /\ U16(end) /\ U16(crc)
    THEN <<FSB, 7, 52>> \o BE16(org) \o BE16(end) \o BE16(crc)
    ELSE StructError

bin_lock(lock) == pack_cBBH(3, 53, lock)

bin_runapp(option) == pack_cBBH(3, 54, option)

(***************************************************************************)
(* Device maps and region planner.  A region is <<start, stop, page>>.     *)
(* NoMap stands for args.map = None (no -m option).                        *)
(***************************************************************************)
NoMap == "None"

\* a slip of the default: the whole 16-bit space
regions_default_full_space == << <<0, 65535, 512>> >>

\* the default of the lookup: [ [ 0x0000, 0xFBFF, 512 ] ]
regions_default == << <<0, 64511, 512>> >>

regions(type) ==
    CASE type = "bb2"  -> << <<0, 15871, 512>>, <<63488, 64447, 64>> >>
      [] type = "bb50" -> << <<0, 14335, 2048>> >>
      [] type = "bb51" -> << <<0, 14335, 2048>> >>
      [] type = "bb52" -> << <<0, 30719, 2048>> >>
      [] type = "sb2"  -> << <<0, 63487, 1024>> >>
      [] type = "ub1"  -> << <<0, 15871, 512>>, <<63488, 64447, 64>> >>
      [] OTHER         -> regions_default

\* a slip of the test: "<=" for "<"
region_overlaps_or_touches(org, top, r) == Max(org, r[1]) <= Min(top, r[2])

\* the test of get_regions: the clipped region is yielded when it holds
region_overlaps(org, top, r) == Max(org, r[1]) < Min(top, r[2])

\* the generator get_regions, as the sequence of the triples it yields
get_regions(org, top, type) ==
    LET kept == SelectSeq(regions(type), LAMBDA r : region_overlaps(org, top, r))
    IN  [i \in 1..Len(kept) |->
            <<Max(org, kept[i][1]), Min(top, kept[i][2]), kept[i][3]>>]

(***************************************************************************)
(* The image (intelhex.IntelHex) as used by hex2boot: a function from the  *)
(* populated addresses to bytes.                                           *)
(***************************************************************************)
\* ih[addr]: the byte, or the padding 0xFF where the address is not populated
ih_get(ih, addr) == IF addr \in DOMAIN ih THEN ih[addr] ELSE 255

\* ih[addr] = byte
ih_set(ih, addr, byte) ==
    [a \in (DOMAIN ih) \cup {addr} |-> IF a = addr THEN byte ELSE ih[a]]

SetMin(S) == CHOOSE x \in S : \A y \in S : x <= y
SetMax(S) == CHOOSE x \in S : \A y \in S : y <= x

\* ih[slice(start, stop)]: a new image holding the populated addresses a with
\* start <= a < stop; the slice reads "start or addresses[0]" and
\* "stop or addresses[-1]+1", so a bound of 0 stands for the image's own end
ih_slice(ih, start, stop) ==
    IF DOMAIN ih = {} THEN ih
    ELSE LET lo == IF start = 0 THEN SetMin(DOMAIN ih) ELSE start
             hi == IF stop = 0 THEN SetMax(DOMAIN ih) + 1 ELSE stop
         IN  [a \in {x \in DOMAIN ih : lo <= x /\ x < hi} |-> ih[a]]

\* ih.tobinstr(start=addr, size=size)
ih_tobinstr(ih, addr, size) == [i \in 1..size |-> ih_get(ih, addr + i - 1)]

\* b'\xff' * size
FFs(size) == [i \in 1..size |-> 255]

(***************************************************************************)
(* State of one run of the program.                                        *)
(*   args    the command line as argparse sees it: id (sequence), lock and *)
(*           hexfile (<<>> when absent, else <<v>>), bank, erase, map,     *)
(*           start, top, wait; hexfile holds the content of the hex file   *)
(*   pc      position of the run                                           *)
(*   brec    the bytes written to the output file so far                   *)
(*   ids     the identity values the loop of hex2boot has yet to visit     *)
(*   ih      the image read from the hex file                              *)
(*   resetv  the byte read at address 0 before the override                *)
(*   regs    the regions get_regions has yet to yield                      *)
(*   loc     the local variables of the running mem2boot or erase2boot     *)
(*   calls   history: the translator calls that have returned, each with   *)
(*           its region and the part of brec it wrote (brec[from+1..to])   *)
(***************************************************************************)
VARIABLES args, pc, brec, ids, ih, resetv, regs, loc, calls

vars == <<args, pc, brec, ids, ih, resetv, regs, loc, calls>>

NoImage == <<>>
NoLoc == [ih |-> NoImage, start |-> 0, stop |-> 0, page |-> 0, erase |-> 0,
          crc |-> 0, minaddr |-> 0, maxaddr |-> 0, recsize |-> 0, addr |-> 0,
          from |-> 0]

\* failsafe = (args.bank == 0) and (args.start == 0)
failsafe == (args.bank = 0) /\ (args.start = 0)

\* the type function literal of the command line: accepted unless > 0xFFFF
literal_accepts(value) == ~(value > 65535)

\* brec.write(bin) where packing bin may have raised struct.error
Emit(bin, next) ==
    IF bin = StructError
    THEN /\ pc' = "struct_error"
         /\ brec' = brec
    ELSE /\ pc' = next
         /\ brec' = brec \o bin

\* ap.parse_args(): every -i, -l, -s, -t value goes through literal
parse_args ==
    /\ pc = "parse_args"
    /\ pc' = IF /\ \A i \in 1..Len(args.id) : literal_accepts(args.id[i])
                /\ \A i \in 1..Len(args.lock) : literal_accepts(args.lock[i])
                /\ literal_accepts(args.start)
                /\ literal_accepts(args.top)
             THEN "ident"
             ELSE "usage_error"
    /\ ids' = args.id
    /\ UNCHANGED <<args, brec, ih, resetv, regs, loc, calls>>

\* for blid in args.id: brec.write(bin_ident(blid))
hex2boot_ident ==
    /\ pc = "ident"
    /\ ids # <<>>
    /\ Emit(bin_ident(Head(ids)), "ident")
    /\ ids' = IF bin_ident(Head(ids)) = StructError THEN ids ELSE Tail(ids)
    /\ UNCHANGED <<args, ih, resetv, regs, loc, calls>>

\* where hex2boot goes on when the loop over the regions to erase has no
\* region left
after_erase(rest) == IF rest = <<>> THEN "lock" ELSE "erase_regions"

\* a slip of the branch: the range erase also runs when a lock value is given
memory_branch_erase_with_lock(hexfile, lock) ==
    IF hexfile # <<>> THEN "image" ELSE "erase"

\* "if args.hexfile: ... elif args.lock is None: ..." : what the memory phase
\* of hex2boot does
memory_branch(hexfile, lock) ==
    IF hexfile # <<>> THEN "image"
    ELSE IF lock = <<>> THEN "erase"
    ELSE "none"

\* brec.write(bin_setup(args.bank)), then the branch on args.hexfile and
\* args.lock up to the first call of get_regions
hex2boot_setup ==
    /\ pc = "ident"
    /\ ids = <<>>
    /\ LET planned == get_regions(args.start, args.top, args.map)
           branch  == memory_branch(args.hexfile, args.lock)
       IN  IF branch = "image"
           THEN LET file == args.hexfile[1]
                    rv   == ih_get(file, 0)
                IN  /\ Emit(bin_setup(args.bank, SETUP_KEYS), "hex_regions")
                    /\ resetv' = rv
                    /\ ih' = IF failsafe /\ rv # 255
                             THEN ih_set(file, 0, 255) ELSE file
                    /\ regs' = planned
           ELSE IF branch = "erase"
           THEN /\ Emit(bin_setup(args.bank, SETUP_KEYS), after_erase(planned))
                /\ regs' = planned
                /\ UNCHANGED <<ih, resetv>>
           ELSE /\ Emit(bin_setup(args.bank, SETUP_KEYS), "lock")
                /\ UNCHANGED <<ih, resetv, regs>>
    /\ UNCHANGED <<args, ids, loc, calls>>

(***************************************************************************)
(* mem2boot(brec, ih[slice(start, stop)], page, args.erase)                *)
(***************************************************************************)
\* a slip of minaddr: the first populated address, not floored to its page
mem2boot_minaddr_unfloored(first, page) == first

\* minaddr = int(addresses[0] / page) * page
mem2boot_minaddr(first, page) == (first \div page) * page

\* a slip of recsize: chunks of at most 64 bytes
mem2boot_recsize_half(page) == Min(64, page)

\* recsize = min(128, page)
mem2boot_recsize(page) == Min(128, page)

\* size = min(recsize, maxaddr - addr + 1)
\* a slip of the size: the clamp to the last address is left out
mem2boot_size_unclamped(recsize, maxaddr, addr) == recsize

mem2boot_size(recsize, maxaddr, addr) == Min(recsize, maxaddr - addr + 1)

\* the concatenation of two packed records
Cat(a, b) == IF a = StructError \/ b = StructError THEN StructError ELSE a \o b

\* a slip of the choice: the test "addr % page" is left out
mem2boot_bin_unaligned(addr, data, page, erase) ==
    IF erase = 0
    THEN bin_write(addr, data)
    ELSE IF erase = 1
    THEN Cat(bin_erase(addr, <<>>), bin_write(addr, data))
    ELSE bin_erase(addr, data)

\* the choice of the record(s) written for one chunk
mem2boot_bin(addr, data, page, erase) ==
    IF (erase = 0) \/ (addr % page # 0)
    THEN bin_write(addr, data)
    ELSE IF erase = 1
    THEN Cat(bin_erase(addr, <<>>), bin_write(addr, data))
    ELSE bin_erase(addr, data)

\* a slip of the call: the whole image is handed to mem2boot
mem2boot_view_unsliced(image, start, stop) == image

\* the argument ih[slice(start, stop)] of the call of mem2boot
mem2boot_view(image, start, stop) == ih_slice(image, start, stop)

\* for start, stop, page in get_regions(...): mem2boot(...) up to the loop
\* over the chunks; with no populated address mem2boot returns at once
mem2boot_call ==
    /\ pc = "hex_regions"
    /\ regs # <<>>
    /\ LET r    == Head(regs)
           view == mem2boot_view(ih, r[1], r[2])
           min0 == mem2boot_minaddr(SetMin(DOMAIN view), r[3])
       IN  IF DOMAIN view = {}
           THEN /\ calls' = Append(calls, [fn |-> "mem2boot", region |-> r,
                                           from |-> Len(brec), to |-> Len(brec)])
                /\ UNCHANGED <<pc, loc>>
           ELSE /\ loc' = [ih |-> view, start |-> r[1], stop |-> r[2],
                           page |-> r[3], erase |-> args.erase, crc |-> 0,
                           minaddr |-> min0, maxaddr |-> SetMax(DOMAIN view),
                           recsize |-> mem2boot_recsize(r[3]), addr |-> min0,
                           from |-> Len(brec)]
                /\ pc' = "mem2boot"
                /\ UNCHANGED calls
    /\ regs' = Tail(regs)
    /\ UNCHANGED <<args, brec, ids, ih, resetv>>

\* one iteration of "for addr in range(minaddr, maxaddr+1, recsize)"
mem2boot_chunk ==
    /\ pc = "mem2boot"
    /\ loc.addr <= loc.maxaddr
    /\ LET size == mem2boot_size(loc.recsize, loc.maxaddr, loc.addr)
           data == ih_tobinstr(loc.ih, loc.addr, size)
           bin  == mem2boot_bin(loc.addr, data, loc.page, loc.erase)
       IN  /\ Emit(bin, "mem2boot")
           /\ loc' = IF bin = StructError THEN loc
                     ELSE [loc EXCEPT !.crc = crc16(data, loc.crc),
                                      !.addr = loc.addr + loc.recsize]
    /\ UNCHANGED <<args, ids, ih, resetv, regs, calls>>

\* brec.write(bin_verify(minaddr, maxaddr, crc)) and the return of mem2boot
mem2boot_verify ==
    /\ pc = "mem2boot"
    /\ loc.addr > loc.maxaddr
    /\ Emit(bin_verify(loc.minaddr, loc.maxaddr, loc.crc), "hex_regions")
    /\ calls' = IF pc' = "struct_error" THEN calls
                ELSE Append(calls, [fn |-> "mem2boot",
                                    region |-> <<loc.start, loc.stop, loc.page>>,
                                    from |-> loc.from, to |-> Len(brec')])
    /\ loc' = NoLoc
    /\ UNCHANGED <<args, ids, ih, resetv, regs>>

\* a slip of the restore: the test "resetv != 0xFF" is left out
hex2boot_restore_whenever_failsafe ==
    /\ pc = "hex_regions"
    /\ regs = <<>>
    /\ IF failsafe
       THEN Emit(bin_write(0, <<resetv>>), "lock")
       ELSE pc' = "lock" /\ brec' = brec
    /\ UNCHANGED <<args, ids, ih, resetv, regs, loc, calls>>

\* if failsafe and resetv != 0xFF: brec.write(bin_write(0, bytearray([resetv])))
hex2boot_restore ==
    /\ pc = "hex_regions"
    /\ regs = <<>>
    /\ IF failsafe /\ resetv # 255
       THEN Emit(bin_write(0, <<resetv>>), "lock")
       ELSE pc' = "lock" /\ brec' = brec
    /\ UNCHANGED <<args, ids, ih, resetv, regs, loc, calls>>

(***************************************************************************)
(* erase2boot(brec, start, stop, page)                                     *)
(***************************************************************************)
\* page_start = int(start / page) * page
erase2boot_page_start(start, page) == (start \div page) * page

\* a slip of the size: the end taken as exclusive
erase2boot_size_exclusive(start, stop) == stop - start

\* size = stop - start + 1
erase2boot_size(start, stop) == stop - start + 1

\* for start, stop, page in get_regions(...): erase2boot(...) up to its loop
erase2boot_call ==
    /\ pc = "erase_regions"
    /\ regs # <<>>
    /\ LET r == Head(regs)
       IN  loc' = [NoLoc EXCEPT !.start = r[1], !.stop = r[2], !.page = r[3],
                                !.addr = erase2boot_page_start(r[1], r[3]),
                                !.from = Len(brec)]
    /\ pc' = "erase2boot"
    /\ regs' = Tail(regs)
    /\ UNCHANGED <<args, brec, ids, ih, resetv, calls>>

\* one iteration of "for addr in range(page_start, stop+1, page)"
erase2boot_page ==
    /\ pc = "erase2boot"
    /\ loc.addr <= loc.stop
    /\ Emit(bin_erase(loc.addr, <<>>), "erase2boot")
    /\ loc' = IF pc' = "struct_error" THEN loc
              ELSE [loc EXCEPT !.addr = loc.addr + loc.page]
    /\ UNCHANGED <<args, ids, ih, resetv, regs, calls>>

\* brec.write(bin_verify(start, stop, crc16(b'\xff'*size, 0))) and the return
erase2boot_verify ==
    /\ pc = "erase2boot"
    /\ loc.addr > loc.stop
    /\ Emit(bin_verify(loc.start, loc.stop,
                       crc16(FFs(erase2boot_size(loc.start, loc.stop)), 0)),
            after_erase(regs))
    /\ calls' = IF pc' = "struct_error" THEN calls
                ELSE Append(calls, [fn |-> "erase2boot",
                                    region |-> <<loc.start, loc.stop, loc.page>>,
                                    from |-> loc.from, to |-> Len(brec')])
    /\ loc' = NoLoc
    /\ UNCHANGED <<args, ids, ih, resetv, regs>>

(***************************************************************************)
(* The end of hex2boot                                                     *)
(***************************************************************************)
\* if args.lock is not None: brec.write(bin_lock(args.lock))
hex2boot_lock ==
    /\ pc = "lock"
    /\ IF args.lock # <<>>
       THEN Emit(bin_lock(args.lock[1]), "runapp")
       ELSE pc' = "runapp" /\ brec' = brec
    /\ UNCHANGED <<args, ids, ih, resetv, regs, loc, calls>>

\* a slip of the last step: RunApp is written whatever the wait flag
hex2boot_runapp_ignoring_wait ==
    /\ pc = "runapp"
    /\ Emit(bin_runapp(0), "done")
    /\ UNCHANGED <<args, ids, ih, resetv, regs, loc, calls>>

\* if not args.wait: brec.write(bin_runapp())
hex2boot_runapp ==
    /\ pc = "runapp"
    /\ IF ~args.wait
       THEN Emit(bin_runapp(0), "done")
       ELSE pc' = "done" /\ brec' = brec
    /\ UNCHANGED <<args, ids, ih, resetv, regs, loc, calls>>

(***************************************************************************)
(* The command lines explored.  The bounds keep a run short: identity      *)
(* lists of at most MaxIds values, images of at most MaxPop populated      *)
(* addresses, walks of at most MaxChunks chunks per region, range erases   *)
(* of at most MaxPages pages and MaxEraseBytes bytes per region.           *)
(***************************************************************************)
MaxIds == 2
MaxPop == 2
MaxChunks == 17
MaxPages == 4
MaxEraseBytes == 1024

\* values given to -i and -l: below, inside and above the 16-bit range
IdValues == {-1, 4660, 65536}
IdLists == UNION {[1..n -> IdValues] : n \in 0..MaxIds}
LockValues == {<<>>, <<-1>>, <<65535>>, <<65536>>}

\* -s/-t windows: the default, the window up to 0x3E00, one page, a start
\* that is not page-aligned, a window over both regions of bb2, a window in
\* the 64-byte pages, and a window that meets the first region of bb2 in its
\* last address only
Windows == {<<0, 65535>>, <<0, 15872>>, <<0, 511>>, <<2, 1023>>,
            <<15800, 63551>>, <<63500, 63700>>, <<15871, 65535>>}

\* -m: no map and a map of every page size of the table
Maps == {NoMap, "bb2", "sb2", "bb52"}

\* the hex files: at least one populated address, chosen among ImgAddrs (the
\* reset vector, both chunks of the first page, the last two addresses of
\* the first region of bb2, an address in its 64-byte pages); the byte at
\* address 0 is 0x20 or 0xFF
ImgAddrs == {0, 1, 129, 15870, 15871, 63553}
ImgByte(a) == (a % 199) + 1
\* hex files whose walk crosses page boundaries: 17 chunks from 0 to 2100
\* (pages of 512, 1024 and 2048 bytes) and two 64-byte pages of bb2
PagedAddrs == {{129, 2100}, {63490, 63553}}
Images ==
    {[a \in S |-> IF a = 0 THEN b0 ELSE ImgByte(a)] :
        S \in {T \in SUBSET ImgAddrs : T # {} /\ Cardinality(T) <= MaxPop}
                \cup PagedAddrs,
        b0 \in {32, 255}}

\* number of iterations of the loop of mem2boot over one region
walk_chunks(image, r) ==
    LET view == mem2boot_view(image, r[1], r[2])
    IN  IF DOMAIN view = {} THEN 0
        ELSE ((SetMax(DOMAIN view)
                 - mem2boot_minaddr(SetMin(DOMAIN view), r[3]))
              \div mem2boot_recsize(r[3])) + 1

\* the run stays within the bounds
Bounded(a) ==
    LET planned == get_regions(a.start, a.top, a.map)
    IN  IF a.hexfile # <<>>
        THEN \A i \in 1..Len(planned) :
                walk_chunks(a.hexfile[1], planned[i]) <= MaxChunks
        ELSE \A i \in 1..Len(planned) :
                LET r == planned[i]
                IN  /\ r[2] - r[1] + 1 <= MaxEraseBytes
                    /\ (r[2] - erase2boot_page_start(r[1], r[3])) \div r[3]
                           < MaxPages

\* command lines that vary the identity values, the lock value and the wait
\* flag around a few hex files; "zz" is a map name the table lacks
SessionArgs ==
    [id : IdLists, lock : LockValues, wait : BOOLEAN, bank : {0, 1},
     erase : {2}, map : {"bb2", "zz"},
     hexfile : {<<>>, <<(0 :> 32 @@ 1 :> 2)>>, <<(1 :> 2 @@ 129 :> 131)>>},
     start : {0}, top : {511, 65536}]
      \cup
    [id : {<<>>}, lock : {<<>>, <<65535>>}, wait : {FALSE}, bank : {0},
     erase : {2}, map : {"bb2"}, hexfile : {<<>>},
     start : {-1}, top : {511}]

\* command lines that vary the hex file, the window, the map, the bank and
\* the erase mode
TranslateArgs ==
    {a \in [id : {<<>>}, lock : {<<>>}, wait : {FALSE}, bank : {0, 1},
            erase : {0, 1, 2}, map : Maps,
            hexfile : {<<>>} \cup {<<im>> : im \in Images},
            start : {w[1] : w \in Windows}, top : {w[2] : w \in Windows}] :
        <<a.start, a.top>> \in Windows}

Init ==
    /\ args \in {a \in SessionArgs \cup TranslateArgs : Bounded(a)}
    /\ pc = "parse_args"
    /\ brec = <<>>
    /\ ids = <<>>
    /\ ih = NoImage
    /\ resetv = 255
    /\ regs = <<>>
    /\ loc = NoLoc
    /\ calls = <<>>

Next ==
    \/ parse_args
    \/ hex2boot_ident
    \/ hex2boot_setup
    \/ mem2boot_call
    \/ mem2boot_chunk
    \/ mem2boot_verify
    \/ hex2boot_restore
    \/ erase2boot_call
    \/ erase2boot_page
    \/ erase2boot_verify
    \/ hex2boot_lock
    \/ hex2boot_runapp

Spec == Init /\ [][Next]_vars

\* the interpreter runs the loop of mem2boot: an iteration that can be taken
\* is taken, and so is the write of the Verify record after the loop
FairSpec == Spec /\ WF_vars(mem2boot_chunk) /\ WF_vars(mem2boot_verify)

(***************************************************************************)
(* The checksum engine on its own: a caller feeds crc16 a sequence of      *)
(* chunks, each result being the crc argument of the next call, as the     *)
(* loop of mem2boot does.  Here args holds the chunks and the initial      *)
(* value, ids the chunks yet to feed, brec the bytes fed so far and        *)
(* loc.crc the running value.                                              *)
(***************************************************************************)
MaxCrcChunks == 3

\* the chunks: empty, one byte, and the pieces of the ASCII bytes "123456789"
CrcChunks == {<<>>, <<0>>, <<255>>, <<1, 128>>,
              <<49, 50, 51>>, <<52, 53, 54, 55>>, <<56, 57>>}
\* the initial values: 16-bit
CrcInits == {0, 1, 4129, 65535}

InitCrc ==
    /\ args \in [chunks : UNION {[1..n -> CrcChunks] : n \in 0..MaxCrcChunks},
                 crc : CrcInits]
    /\ pc = "crc16"
    /\ brec = <<>>
    /\ ids = args.chunks
    /\ ih = NoImage
    /\ resetv = 255
    /\ regs = <<>>
    /\ loc = [NoLoc EXCEPT !.crc = args.crc]
    /\ calls = <<>>

\* crc = crc16(data, crc) on the next chunk
crc16_chain ==
    /\ pc = "crc16"
    /\ ids # <<>>
    /\ loc' = [loc EXCEPT !.crc = crc16(Head(ids), loc.crc)]
    /\ brec' = brec \o Head(ids)
    /\ ids' = Tail(ids)
    /\ UNCHANGED <<args, pc, ih, resetv, regs, calls>>

NextCrc == crc16_chain

SpecCrc == InitCrc /\ [][NextCrc]_vars

(***************************************************************************)
(* Reading the sink back: the records of a byte stream, split by their     *)
(* length fields, and the fields of a record.                              *)
(***************************************************************************)
RECURSIVE RecordsFrom(_, _)
RecordsFrom(bytes, i) ==
    IF i + 1 > Len(bytes) THEN <<>>
    ELSE <<SubSeq(bytes, i, i + 1 + bytes[i + 1])>>
             \o RecordsFrom(bytes, i + 2 + bytes[i + 1])

Records(bytes) == RecordsFrom(bytes, 1)

RecType(r) == r[3]
\* the first 16-bit field: identity value, keys, address, lock value, option
RecAddr(r) == r[4] * 256 + r[5]
\* the data bytes of an Erase or Write record
RecData(r) == SubSeq(r, 6, Len(r))
\* the second and third 16-bit fields of a Verify record
RecEnd(r) == r[6] * 256 + r[7]
RecCrc(r) == r[8] * 256 + r[9]

IsIdent(r)  == RecType(r) = 48
IsSetup(r)  == RecType(r) = 49
IsErase(r)  == RecType(r) = 50
IsWrite(r)  == RecType(r) = 51
IsVerify(r) == RecType(r) = 52
IsLock(r)   == RecType(r) = 53
IsRunApp(r) == RecType(r) = 54

\* an Erase or Write record that carries data
HasData(r) == (IsErase(r) \/ IsWrite(r)) /\ Len(r) > 5
\* the record carries a byte for address a
Covers(r, a) == HasData(r) /\ RecAddr(r) <= a /\ a < RecAddr(r) + Len(r) - 5
\* the byte the record carries for address a
ByteFor(r, a) == r[6 + (a - RecAddr(r))]

\* the phase of a record: identity, setup, memory, lock, run
Phase(r) ==
    CASE IsIdent(r) -> 1
      [] IsSetup(r) -> 2
      [] IsErase(r) \/ IsWrite(r) \/ IsVerify(r) -> 3
      [] IsLock(r) -> 4
      [] IsRunApp(r) -> 5
      [] OTHER -> 0

Count(rs, P(_)) == Cardinality({i \in 1..Len(rs) : P(rs[i])})

\* the records a returned translator call wrote
CallRecords(c) == Records(SubSeq(brec, c.from + 1, c.to))
\* the regions of the translator calls made so far, in call order
CallRegions == [i \in 1..Len(calls) |-> calls[i].region]

\* the hex file given on the command line
HexFile == args.hexfile[1]
\* the run is past the memory phase of hex2boot
PastMemory == pc \in {"lock", "runapp", "done"}
\* the end in brec of what the translators wrote
TranslatedEnd ==
    IF calls = <<>> THEN Min(Len(brec), 5 * Len(args.id) + 6)
    ELSE calls[Len(calls)].to
\* the records written up to there: the header and the translators' records
Translated == Records(SubSeq(brec, 1, TranslatedEnd))

FailsafeApplies ==
    /\ args.hexfile # <<>>
    /\ args.bank = 0
    /\ args.start = 0
    /\ ih_get(HexFile, 0) # 255

(***************************************************************************)
(* C2: reset-vector failsafe.  With an image, bank 0, start 0 and a byte   *)
(* b # 0xFF at address 0 of the image, every Write or data-carrying Erase  *)
(* record written during region translation that covers address 0 holds   *)
(* 0xFF for it, and the last record before Lock/RunApp is Write(0, <<b>>); *)
(* otherwise nothing is written after the translation of the regions.  In  *)
(* both cases every other byte a translator call emits for a populated     *)
(* address of its region is the byte of the image.                         *)
(***************************************************************************)
C2_Failsafe ==
    args.hexfile # <<>> =>
        LET translated == Translated
            all == Records(brec)
        IN  /\ FailsafeApplies =>
                \A i \in 1..Len(translated) :
                    Covers(translated[i], 0) => ByteFor(translated[i], 0) = 255
            /\ \A k \in 1..Len(calls) :
                 LET rs == CallRecords(calls[k])
                 IN  \A i \in 1..Len(rs) :
                       \A a \in DOMAIN HexFile :
                          /\ Covers(rs[i], a)
                          /\ calls[k].region[1] <= a
                          /\ a <= calls[k].region[2]
                          /\ ~(FailsafeApplies /\ a = 0)
                          => ByteFor(rs[i], a) = HexFile[a]
            /\ PastMemory =>
                IF FailsafeApplies
                THEN /\ Len(all) >= Len(translated) + 1
                     /\ all[Len(translated) + 1]
                            = <<36, 4, 51, 0, 0, ih_get(HexFile, 0)>>
                     /\ \A i \in 1..Len(all) :
                            Phase(all[i]) <= 3 => i <= Len(translated) + 1
                ELSE \A i \in 1..Len(all) :
                            Phase(all[i]) <= 3 => i <= Len(translated)

\* the failsafe has acted: an Erase or Write of the translation covers
\* address 0 with 0xFF and the restoring Write of 0x20 has been written
C2_Witness ==
    /\ FailsafeApplies
    /\ PastMemory
    /\ \E i \in 1..Len(Translated) :
          /\ Covers(Records(brec)[i], 0)
          /\ ByteFor(Records(brec)[i], 0) = 255
    /\ SubSeq(brec, TranslatedEnd + 1, TranslatedEnd + 6) = <<36, 4, 51, 0, 0, 32>>

\* the byte the translation is to carry for a populated address
ExpectedByte(a) == IF FailsafeApplies /\ a = 0 THEN 255 ELSE HexFile[a]

\* the populated addresses of the hex file within a region, its end included
Populated(region) ==
    {a \in DOMAIN HexFile : region[1] <= a /\ a <= region[2]}

(***************************************************************************)
(* C3: for every region <<start, stop, page>> handed to mem2boot and every *)
(* populated image address a with start <= a <= stop (the end inclusive),  *)
(* the records of that call contain a Write or data-carrying Erase that    *)
(* covers a and holds the image's byte at a (0xFF for address 0 under the  *)
(* failsafe override).                                                     *)
(***************************************************************************)
C3_RegionCovered ==
    \A k \in 1..Len(calls) :
        calls[k].fn = "mem2boot" =>
            LET rs == CallRecords(calls[k])
            IN  \A a \in Populated(calls[k].region) :
                    \E i \in 1..Len(rs) :
                        Covers(rs[i], a) /\ ByteFor(rs[i], a) = ExpectedByte(a)

(***************************************************************************)
(* C4: in erase mode with-data (args.erase = 2), every Erase record that   *)
(* mem2boot writes with data has a page-aligned address and mem2boot       *)
(* writes no Write record for that chunk address; the records mem2boot     *)
(* writes at addresses that are not page-aligned are Write records only.   *)
(***************************************************************************)
C4_EraseWithData ==
    \A k \in 1..Len(calls) :
        (calls[k].fn = "mem2boot" /\ args.erase = 2) =>
            LET rs   == CallRecords(calls[k])
                page == calls[k].region[3]
            IN  \A i \in 1..Len(rs) :
                  /\ (IsErase(rs[i]) /\ HasData(rs[i])) =>
                        /\ RecAddr(rs[i]) % page = 0
                        /\ \A j \in 1..Len(rs) :
                              IsWrite(rs[j]) => RecAddr(rs[j]) # RecAddr(rs[i])
                  /\ (~IsVerify(rs[i]) /\ RecAddr(rs[i]) % page # 0) =>
                        IsWrite(rs[i])

\* a with-data translation that wrote an Erase with data for the first chunk
\* of a page and a Write for a later chunk of it
C4_Witness ==
    /\ args.erase = 2
    /\ \E k \in 1..Len(calls) :
          /\ calls[k].fn = "mem2boot"
          /\ LET rs == CallRecords(calls[k])
             IN  /\ \E i \in 1..Len(rs) : IsErase(rs[i]) /\ HasData(rs[i])
                 /\ \E i \in 1..Len(rs) :
                       IsWrite(rs[i]) /\ RecAddr(rs[i]) % calls[k].region[3] # 0

RECURSIVE Payloads(_, _)
\* the data of the records rs[i..], concatenated
Payloads(rs, i) ==
    IF i > Len(rs) THEN <<>>
    ELSE (IF HasData(rs[i]) THEN RecData(rs[i]) ELSE <<>>) \o Payloads(rs, i + 1)

(***************************************************************************)
(* C6: for each region in which the image has a populated address, the     *)
(* call of mem2boot writes exactly one Verify record, after its Erase and  *)
(* Write records and before any record of the next region, with           *)
(* start = floor(first populated / page) * page, end = last populated      *)
(* address and the CRC-16/XMODEM (initial value 0) of the data of the      *)
(* region's records in the order written; a region with no populated       *)
(* address writes nothing.                                                 *)
(***************************************************************************)
C6_VerifyPerRegion ==
    \A k \in 1..Len(calls) :
        calls[k].fn = "mem2boot" =>
            LET rs   == CallRecords(calls[k])
                pop  == Populated(calls[k].region)
                page == calls[k].region[3]
                v    == rs[Len(rs)]
            IN  /\ k < Len(calls) => calls[k].to = calls[k + 1].from
                /\ IF pop = {} THEN rs = <<>>
                   ELSE /\ rs # <<>>
                        /\ Count(rs, IsVerify) = 1
                        /\ IsVerify(v)
                        /\ RecAddr(v) = (SetMin(pop) \div page) * page
                        /\ RecEnd(v) = SetMax(pop)
                        /\ RecCrc(v) = crc16(Payloads(rs, 1), 0)

\* the memory phase ran a translator over every planned region
AllRegionsDone == PastMemory /\ (args.hexfile # <<>> \/ args.lock = <<>>)

(***************************************************************************)
(* C5: the regions hex2boot gets from get_regions are, in the order of the *)
(* map's table, exactly the triples <<max(start, r.start),                 *)
(* min(top, r.stop), r.page>> of the table's regions r with                *)
(* max(start, r.start) < min(top, r.stop); each of them satisfies          *)
(* start <= region start < region end <= top, and a region that meets the  *)
(* window in no address or in one address yields nothing.  The window      *)
(* [0, 0x3E00] on bb2 yields exactly <<0, 0x3DFF, 512>>.                   *)
(***************************************************************************)
C5_Planner ==
    AllRegionsDone =>
        LET table == regions(args.map)
            out   == CallRegions
            kept  == {j \in 1..Len(table) :
                        Max(args.start, table[j][1]) < Min(args.top, table[j][2])}
            \* the number of kept table entries up to the j-th
            rank(j) == Cardinality({x \in kept : x <= j})
        IN  /\ Len(out) = Cardinality(kept)
            /\ \A j \in kept :
                  out[rank(j)] = <<Max(args.start, table[j][1]),
                                   Min(args.top, table[j][2]), table[j][3]>>
            /\ \A i \in 1..Len(out) :
                  /\ args.start <= out[i][1]
                  /\ out[i][1] < out[i][2]
                  /\ out[i][2] <= args.top
            /\ (args.start = 0 /\ args.top = 15872 /\ args.map = "bb2") =>
                  out = << <<0, 15871, 512>> >>

\* the window [0, 0x3E00] on bb2 has been planned and translated
C5_Witness ==
    /\ AllRegionsDone
    /\ args.start = 0 /\ args.top = 15872 /\ args.map = "bb2"
    /\ CallRegions = << <<0, 15871, 512>> >>

(***************************************************************************)
(* C7: a call erase2boot(start, stop, page) writes exactly one address-    *)
(* only Erase record for each address page_start, page_start + page, ...   *)
(* not above stop (page_start = floor(start / page) * page), in ascending  *)
(* order, then one Verify(start, stop, crc) with crc the CRC-16/XMODEM     *)
(* (initial value 0) of stop - start + 1 bytes 0xFF; for <<0, 511, 512>>   *)
(* that is Erase(0) and Verify(0, 511, 0x7FA1).                            *)
(***************************************************************************)
C7_RangeErase ==
    \A k \in 1..Len(calls) :
        calls[k].fn = "erase2boot" =>
            LET rs    == CallRecords(calls[k])
                start == calls[k].region[1]
                stop  == calls[k].region[2]
                page  == calls[k].region[3]
                first == (start \div page) * page
                n     == ((stop - first) \div page) + 1
            IN  /\ Len(rs) = n + 1
                /\ \A i \in 1..n :
                      rs[i] = <<36, 3, 50>> \o BE16(first + (i - 1) * page)
                /\ rs[n + 1] = <<36, 7, 52>> \o BE16(start) \o BE16(stop)
                                 \o BE16(crc16([i \in 1..(stop - start + 1) |-> 255], 0))
                /\ calls[k].region = <<0, 511, 512>> =>
                      SubSeq(brec, calls[k].from + 1, calls[k].to)
                        = <<36, 3, 50, 0, 0, 36, 7, 52, 0, 0, 1, 255, 127, 161>>

\* erase2boot has returned for the region <<0, 511, 512>>
C7_Witness ==
    \E k \in 1..Len(calls) :
        /\ calls[k].fn = "erase2boot"
        /\ calls[k].region = <<0, 511, 512>>
        /\ Len(CallRecords(calls[k])) = 2

(***************************************************************************)
(* C8: memory-phase branch.  With no image and a lock value no Erase,      *)
(* Write or Verify record is written; with no image and no lock value      *)
(* erase2boot runs once for each planned region, in planner order; with    *)
(* an image erase2boot never runs.                                         *)
(***************************************************************************)
C8_MemoryBranch ==
    /\ (args.hexfile = <<>> /\ args.lock # <<>>) =>
          /\ calls = <<>>
          /\ \A i \in 1..Len(Records(brec)) : Phase(Records(brec)[i]) # 3
          /\ pc = "done" =>
                LET rs == Records(brec)
                    n  == Len(args.id)
                IN  /\ Len(rs) = n + 2 + (IF args.wait THEN 0 ELSE 1)
                    /\ \A i \in 1..n : IsIdent(rs[i])
                    /\ IsSetup(rs[n + 1])
                    /\ IsLock(rs[n + 2])
                    /\ ~args.wait => IsRunApp(rs[n + 3])
    /\ (args.hexfile = <<>> /\ args.lock = <<>>) =>
          /\ \A k \in 1..Len(calls) : calls[k].fn = "erase2boot"
          /\ PastMemory =>
                CallRegions = get_regions(args.start, args.top, args.map)
    /\ args.hexfile # <<>> =>
          /\ \A k \in 1..Len(calls) : calls[k].fn = "mem2boot"
          /\ pc \notin {"erase_regions", "erase2boot"}

\* a session without image and without lock value has run to the end and
\* erase2boot has returned for each of two planned regions
C8_Witness ==
    /\ pc = "done"
    /\ args.hexfile = <<>>
    /\ args.lock = <<>>
    /\ Len(calls) = 2
    /\ calls[1].fn = "erase2boot" /\ calls[2].fn = "erase2boot"

\* some -i, -l, -s or -t value is outside 0..0xFFFF
Unrepresentable ==
    \/ \E i \in 1..Len(args.id) : ~U16(args.id[i])
    \/ \E i \in 1..Len(args.lock) : ~U16(args.lock[i])
    \/ ~U16(args.start)
    \/ ~U16(args.top)

(***************************************************************************)
(* C9: an identity, lock, start or top value outside 0..0xFFFF (on either  *)
(* side) is rejected before encoding begins: no record is written to the   *)
(* sink in that session.                                                   *)
(***************************************************************************)
C9_RejectedBeforeEncoding == Unrepresentable => brec = <<>>

\* the names of the table of regions
KnownMaps == {"bb2", "bb50", "bb51", "bb52", "sb2", "ub1"}

\* the regions planned for a window over a single-region map
ClipOne(r) ==
    IF Max(args.start, r[1]) < Min(args.top, r[2])
    THEN << <<Max(args.start, r[1]), Min(args.top, r[2]), r[3]>> >>
    ELSE <<>>

C11_CrcChaining ==
    pc = "crc16" =>
        /\ loc.crc = crc16(brec, args.crc)
        /\ loc.crc \in 0..65535

\* three non-empty chunks have been chained from a non-zero initial value
C11_Witness ==
    /\ pc = "crc16"
    /\ ids = <<>>
    /\ Len(args.chunks) = 3
    /\ \A i \in 1..3 : args.chunks[i] # <<>>
    /\ args.crc = 65535
    /\ loc.crc = crc16(brec, 65535)

\* the bit-shifting CRC-16/XMODEM: polynomial 0x1021, most significant bit
\* first, no reflection, no final XOR
crc_ref_bit(crc) ==
    IF crc >= 32768 THEN Xor((crc * 2) % 65536, 4129) ELSE crc * 2

crc_ref_byte(crc, byte) ==
    crc_ref_bit(crc_ref_bit(crc_ref_bit(crc_ref_bit(
    crc_ref_bit(crc_ref_bit(crc_ref_bit(crc_ref_bit(
        Xor(crc, byte * 256)))))))))

RECURSIVE crc_ref_from(_, _, _)
crc_ref_from(data, i, crc) ==
    IF i > Len(data) THEN crc
    ELSE LET c == crc_ref_byte(crc, data[i])
         IN  IF c >= 0 THEN crc_ref_from(data, i + 1, c) ELSE c

crc_ref(data, crc) == crc_ref_from(data, 1, crc)

\* each of the 256 table entries is the reference CRC of its index byte
TableMatchesReference ==
    \A b \in 0..255 : CRC16_XMODEM_TABLE[b + 1] = crc_ref_byte(0, b)

(***************************************************************************)
(* C12: the table-driven crc16 equals the bit-shifting CRC-16/XMODEM       *)
(* reference for every byte sequence and initial value: each of the 256    *)
(* table entries is the reference CRC of its index byte from state 0, and  *)
(* crc16 over the ASCII bytes "123456789" with initial value 0 is 0x31C3.  *)
(***************************************************************************)
C12_CrcReference ==
    pc = "crc16" =>
        /\ Len(CRC16_XMODEM_TABLE) = 256
        /\ TableMatchesReference
        /\ loc.crc = crc_ref(brec, args.crc)
        /\ crc16(brec, args.crc) = crc_ref(brec, args.crc)
        /\ (brec = <<49, 50, 51, 52, 53, 54, 55, 56, 57>> /\ args.crc = 0) =>
              loc.crc = 12739

\* crc16 has been run over "123456789" from 0 and has returned 0x31C3
C12_Witness ==
    /\ pc = "crc16"
    /\ ids = <<>>
    /\ args.crc = 0
    /\ brec = <<49, 50, 51, 52, 53, 54, 55, 56, 57>>
    /\ loc.crc = 12739

(***************************************************************************)
(* C13: erase before write.  In erase mode separate (1) or with-data (2),  *)
(* within one call of mem2boot every flash page that contains an address   *)
(* of [low, high] gets exactly one Erase record, at its page-aligned base  *)
(* address, and that Erase is written before every Write record that       *)
(* addresses a byte of the page: no Write to a page precedes the page's    *)
(* Erase and no page is erased after data was written to it.               *)
(***************************************************************************)
C13_EraseBeforeWrite ==
    \A k \in 1..Len(calls) :
        (calls[k].fn = "mem2boot" /\ args.erase \in {1, 2}
            /\ calls[k].to > calls[k].from) =>
            LET rs    == CallRecords(calls[k])
                page  == calls[k].region[3]
                low   == RecAddr(rs[Len(rs)])
                high  == RecEnd(rs[Len(rs)])
                bases == {low + n * page : n \in 0..((high - low) \div page)}
                inPage(r, b) == ~IsVerify(r) /\ b <= RecAddr(r)
                                   /\ RecAddr(r) < b + page
            IN  /\ low % page = 0
                /\ \A i \in 1..Len(rs) :
                      IsErase(rs[i]) => RecAddr(rs[i]) \in bases
                /\ \A b \in bases :
                      \E i \in 1..Len(rs) :
                         /\ IsErase(rs[i]) /\ RecAddr(rs[i]) = b
                         /\ \A j \in 1..Len(rs) :
                               /\ (IsErase(rs[j]) /\ inPage(rs[j], b)) => j = i
                               /\ (inPage(rs[j], b) /\ HasData(rs[j])) => i <= j
                               /\ (inPage(rs[j], b) /\ IsWrite(rs[j])) => i < j

\* a walk over at least two pages has erased each page and then written to it
C13_Witness ==
    /\ args.erase \in {1, 2}
    /\ \E k \in 1..Len(calls) :
          /\ calls[k].fn = "mem2boot"
          /\ LET rs == CallRecords(calls[k])
             IN  /\ Count(rs, IsErase) >= 2
                 /\ \E j \in 1..Len(rs) :
                       IsWrite(rs[j]) /\ RecAddr(rs[j]) % calls[k].region[3] # 0

\* every address a translator record r touches lies in lo..hi: the address
\* of an Erase, the addresses of the data of an Erase or Write, the bounds of
\* a Verify; with whole = TRUE an Erase touches its whole page
Touches(r, page, lo, hi, whole) ==
    /\ lo <= RecAddr(r)
    /\ RecAddr(r) <= hi
    /\ HasData(r) => RecAddr(r) + Len(r) - 6 <= hi
    /\ (IsErase(r) /\ whole) => RecAddr(r) + page - 1 <= hi
    /\ IsVerify(r) => (lo <= RecEnd(r) /\ RecEnd(r) <= hi)

(***************************************************************************)
(* C14, as claimed: every Erase, Write and Verify record of the memory     *)
(* phase addresses only bytes inside the window [start, top]: no Erase     *)
(* erases a page with an address below start or above top, no Write        *)
(* payload covers an address outside the window, every Verify range lies   *)
(* within the window.                                                      *)
(***************************************************************************)
C14_InsideWindow ==
    \A k \in 1..Len(calls) :
        LET rs == CallRecords(calls[k])
        IN  \A i \in 1..Len(rs) :
                Touches(rs[i], calls[k].region[3], args.start, args.top, TRUE)

(***************************************************************************)
(* C14, as amended: every Erase, Write and Verify record the translators   *)
(* write has its addresses between floor(start / page) * page and top:     *)
(* the address of every Erase, every address a Write or Erase payload      *)
(* covers and both bounds of every Verify; the Verify range of erase2boot  *)
(* lies within [start, top].                                               *)
(***************************************************************************)
C14_InsidePagedWindow ==
    \A k \in 1..Len(calls) :
        LET rs   == CallRecords(calls[k])
            page == calls[k].region[3]
        IN  \A i \in 1..Len(rs) :
              /\ Touches(rs[i], page, (args.start \div page) * page,
                         args.top, FALSE)
              /\ (calls[k].fn = "erase2boot" /\ IsVerify(rs[i])) =>
                    Touches(rs[i], page, args.start, args.top, FALSE)

\* both translators have written below a start that is not page-aligned:
\* mem2boot a chunk and a Verify from address 0 for the window [2, 1023], or
\* erase2boot an Erase of the page at 0
C14_Witness ==
    /\ args.start = 2
    /\ \E k \in 1..Len(calls) :
          LET rs == CallRecords(calls[k])
          IN  /\ rs # <<>>
              /\ RecAddr(rs[1]) = 0
              /\ IsVerify(rs[Len(rs)])

\* the longest length field: type byte, address and one full chunk
MaxLength == 3 + 128

\* bytes from index i on is a concatenation of whole records: marker, a
\* length field that counts the bytes following it, a type code
RECURSIVE WellFramedFrom(_, _)
WellFramedFrom(bytes, i) ==
    \/ i = Len(bytes) + 1
    \/ /\ i + 2 <= Len(bytes)
       /\ bytes[i] = FSB
       /\ bytes[i + 1] >= 3
       /\ bytes[i + 1] <= MaxLength
       /\ i + 1 + bytes[i + 1] <= Len(bytes)
       /\ bytes[i + 2] \in 48..54
       /\ WellFramedFrom(bytes, i + 2 + bytes[i + 1])

WellFramed(bytes) == WellFramedFrom(bytes, 1)

\* the record an encoder packs from the fields read back from record r
Reencode(r) ==
    CASE IsIdent(r)  -> bin_ident(RecAddr(r))
      [] IsSetup(r)  -> IF Len(r) = 6 THEN bin_setup(r[6], RecAddr(r))
                        ELSE StructError
      [] IsErase(r)  -> bin_erase(RecAddr(r), RecData(r))
      [] IsWrite(r)  -> bin_write(RecAddr(r), RecData(r))
      [] IsVerify(r) -> IF Len(r) = 9
                        THEN bin_verify(RecAddr(r), RecEnd(r), RecCrc(r))
                        ELSE StructError
      [] IsLock(r)   -> bin_lock(RecAddr(r))
      [] IsRunApp(r) -> bin_runapp(RecAddr(r))
      [] OTHER       -> StructError

\* the sink splits by its length fields into records an encoder packed
SinkFramed ==
    /\ WellFramed(brec)
    /\ \A i \in 1..Len(Records(brec)) :
          Reencode(Records(brec)[i]) = Records(brec)[i]

\* a step that writes to the sink appends whole records, and the split of
\* the new sink is the split of the old one followed by the new records
SinkAppends ==
    brec' # brec =>
        /\ Len(brec') > Len(brec)
        /\ SubSeq(brec', 1, Len(brec)) = brec
        /\ WellFramed(SubSeq(brec', Len(brec) + 1, Len(brec')))
        /\ Records(brec') =
              Records(brec) \o Records(SubSeq(brec', Len(brec) + 1, Len(brec')))

(***************************************************************************)
(* C15: at every point of a session the sink is a concatenation of whole   *)
(* records, each the marker 0x24, a length byte equal to the number of     *)
(* bytes after it and a type code in 0x30..0x36; no length exceeds 131, in *)
(* every erase mode and for every map; splitting the sink by the length    *)
(* fields gives back the records written, in the order they were written.  *)
(***************************************************************************)
C15_Framing == []SinkFramed /\ [][SinkAppends]_vars

\* a finished session whose sink holds a full chunk, of length field 131,
\* in an Erase record and in a Write record, and a shorter last chunk
C15_Witness ==
    /\ pc = "done"
    /\ WellFramed(brec)
    /\ \E i, j, k \in 1..Len(Records(brec)) :
          /\ IsErase(Records(brec)[i]) /\ Records(brec)[i][2] = MaxLength
          /\ IsWrite(Records(brec)[j]) /\ Records(brec)[j][2] = MaxLength
          /\ HasData(Records(brec)[k]) /\ Records(brec)[k][2] < MaxLength

\* the records of rs that carry a chunk, in order
RECURSIVE Chunks(_)
Chunks(rs) ==
    IF rs = <<>> THEN <<>>
    ELSE IF HasData(Head(rs)) THEN <<Head(rs)>> \o Chunks(Tail(rs))
    ELSE Chunks(Tail(rs))

ChunkSize(r) == Len(r) - 5

RECURSIVE SumSizes(_)
SumSizes(cs) == IF cs = <<>> THEN 0 ELSE ChunkSize(Head(cs)) + SumSizes(Tail(cs))

\* the chunks cs of a walk over low..high: addresses low, low + recsize, ...,
\* sizes min(recsize, high - addr + 1) >= 1, each chunk starting where the one
\* before it ends; a whole walk ends at high and its sizes sum to the span
WalkShape(cs, low, high, recsize, whole) ==
    /\ \A k \in 1..Len(cs) :
          /\ RecAddr(cs[k]) = low + (k - 1) * recsize
          /\ ChunkSize(cs[k]) = Min(recsize, high - RecAddr(cs[k]) + 1)
          /\ ChunkSize(cs[k]) >= 1
          /\ k > 1 => RecAddr(cs[k]) = RecAddr(cs[k - 1]) + ChunkSize(cs[k - 1])
    /\ whole =>
          /\ cs # <<>>
          /\ RecAddr(cs[1]) = low
          /\ RecAddr(cs[Len(cs)]) + ChunkSize(cs[Len(cs)]) - 1 = high
          /\ SumSizes(cs) = high - low + 1

\* the walk in progress and every walk that has returned have that shape
WalkShapes ==
    /\ pc = "mem2boot" =>
          /\ WalkShape(Chunks(Records(SubSeq(brec, loc.from + 1, Len(brec)))),
                       loc.minaddr, loc.maxaddr, Min(128, loc.page),
                       loc.addr > loc.maxaddr)
          /\ \E n \in 0..MaxChunks : loc.addr = loc.minaddr + n * Min(128, loc.page)
    /\ \A k \in 1..Len(calls) :
          (calls[k].fn = "mem2boot" /\ calls[k].to > calls[k].from) =>
              LET rs == CallRecords(calls[k])
              IN  /\ IsVerify(rs[Len(rs)])
                  /\ WalkShape(Chunks(rs), RecAddr(rs[Len(rs)]),
                               RecEnd(rs[Len(rs)]),
                               Min(128, calls[k].region[3]), TRUE)

(***************************************************************************)
(* C16: the image walk of one region terminates, for every page size and   *)
(* every populated range, and its chunks are contiguous, do not overlap    *)
(* and cover exactly [low, high]: the chunk addresses are low,             *)
(* low + chunk_size, ..., each chunk has size                              *)
(* min(chunk_size, high - addr + 1) >= 1, and the sizes sum to             *)
(* high - low + 1.                                                         *)
(***************************************************************************)
C16_Walk == []WalkShapes /\ ((pc = "mem2boot") ~> (pc # "mem2boot"))

\* a returned walk of several chunks whose span the chunk size does not
\* divide: the last chunk is shorter than the others
C16_Witness ==
    \E k \in 1..Len(calls) :
        /\ calls[k].fn = "mem2boot"
        /\ calls[k].to > calls[k].from
        /\ LET rs == CallRecords(calls[k])
               cs == Chunks(rs)
           IN  /\ Len(cs) >= 2
               /\ (RecEnd(rs[Len(rs)]) - RecAddr(rs[Len(rs)]) + 1)
                      % Min(128, calls[k].region[3]) # 0
               /\ ChunkSize(cs[Len(cs)]) < ChunkSize(cs[1])

\* the span low..high of a returned walk, read from its Verify record
WalkSpan(rs) == RecEnd(rs[Len(rs)]) - RecAddr(rs[Len(rs)]) + 1

\* the returned calls of mem2boot that wrote records
Walks == {k \in 1..Len(calls) :
             calls[k].fn = "mem2boot" /\ calls[k].to > calls[k].from}

(***************************************************************************)
(* C17, as claimed: a walk whose span low..high is shorter than the page   *)
(* size writes exactly one chunk (one Write or Erase-with-data payload)    *)
(* and exactly one Verify record.                                          *)
(***************************************************************************)
C17_SubPageOneChunk ==
    \A k \in Walks :
        LET rs == CallRecords(calls[k])
        IN  WalkSpan(rs) < calls[k].region[3] =>
                /\ Len(Chunks(rs)) = 1
                /\ Count(rs, IsVerify) = 1

(***************************************************************************)
(* C17, as amended: a walk whose span low..high is shorter than the page   *)
(* size writes exactly one Verify record and                               *)
(* ceil((high - low + 1) / min(128, page)) chunks: exactly one chunk when  *)
(* the span is no longer than the chunk size min(128, page), several when  *)
(* it is longer.                                                           *)
(***************************************************************************)
C17_SubPageChunks ==
    \A k \in Walks :
        LET rs      == CallRecords(calls[k])
            page    == calls[k].region[3]
            recsize == Min(128, page)
        IN  WalkSpan(rs) < page =>
                /\ Count(rs, IsVerify) = 1
                /\ Len(Chunks(rs)) = (WalkSpan(rs) + recsize - 1) \div recsize
                /\ WalkSpan(rs) <= recsize <=> Len(Chunks(rs)) = 1

\* a walk shorter than its page of 512 bytes has returned with one chunk and
\* one Verify record
C17_Witness ==
    \E k \in Walks :
        LET rs == CallRecords(calls[k])
        IN  /\ calls[k].region[3] = 512
            /\ WalkSpan(rs) < 128
            /\ Len(Chunks(rs)) = 1
            /\ Count(rs, IsVerify) = 1

====
